---- MODULE Spec2Model ----
(***************************************************************************)
(* Model of the tutorial scripts.                                          *)
(*  - "nn", the nearest-neighbour script                                   *)
(*    (src/3-nearest-neighbor-model/nearest-neighbor-model.js, lines       *)
(*    1-282): the Email store is filled, the text feature space is built,  *)
(*    and search(query, maxCount, minSim) ranks the stored emails by       *)
(*    cosine similarity to the query.                                      *)
(*  - "svm", the spam-filter script (same file, lines 283-805): an SVC is  *)
(*    trained, feature space and SVC are saved to a file and loaded back.  *)
(*    Its aggregates and its query (lines 504-572) only read the store     *)
(*    and are left out.                                                    *)
(*  - "clu", the clustering script                                         *)
(*    (src/2. document-clustering/document-clustering.js).                 *)
(*                                                                         *)
(* Abstractions.                                                           *)
(*  - An email or a query text is the set of words it contains.  The       *)
(*    feature space is built with weight 'none' and normalize true, so a   *)
(*    feature vector is the indicator vector of the words known to the     *)
(*    feature space, scaled to unit length (the zero vector stays zero).   *)
(*  - A similarity is the dot product of two such vectors,                 *)
(*    k / (sqrt(m) * sqrt(n)).  It is kept exactly, as the pair            *)
(*    <<k*k, m*n>> standing for its square (similarities are never         *)
(*    negative, so comparing squares compares similarities).               *)
(*  - minSim is a rational <<p, q>> with q > 0.                            *)
(*  - The library's sortPerm is deterministic, but the order it gives to   *)
(*    equal values is not documented: tiePolicy is that order, fixed for   *)
(*    a whole run and unknown to the script.                               *)
(*  - What the library trains, writes and reads (SVC weights, KMeans       *)
(*    centroids, the bytes of a saved object) is outside the sources: a    *)
(*    saved object is a block tagged with its kind, and the trained        *)
(*    values stand for whatever the library computes.                      *)
(***************************************************************************)
EXTENDS Integers, Sequences, FiniteSets, TLC

VARIABLES
    script,     \* which of the three scripts runs
    pc,         \* position of the script
    base,       \* state of the database `base`
    examples,   \* the emails of require('../emails')
    labels,     \* the spam field of the examples
    store,      \* records of base.store('Email'), record id = position - 1
    emails,     \* the record set `emails` (sequence of record ids)
    ftrWords,   \* the words the feature space knows (its dimensions)
    tiePolicy,  \* order sortPerm gives to equal values
    args,       \* the arguments of the current / last call of search
    caller,     \* how search was called
    fault,      \* the library call that throws during the call, if any
    maxCount,   \* search's parameter maxCount (reassigned at line 229)
    sim,        \* search's local sim
    sort,       \* search's local sort.perm
    idVec,      \* search's local idVec
    simVec,     \* search's local simVec
    i,          \* search's loop counter
    ret,        \* value returned by the last finished call of search
    saved,      \* result of the earlier call that the current call repeats
    similarEmails,  \* the script's variable similarEmails (line 263)
    outI,       \* counter of the output loop (line 266)
    printed,    \* what the output loop has logged
    model,      \* the trained model (SVC or KMeans)
    prediction, \* the script's variable prediction
    fout,       \* the output stream fout
    disk,       \* contents of ./database/models.bin
    fin,        \* the input stream fin
    featureSpace2,  \* the loaded feature space
    model2      \* the loaded SVC

dbVars == <<base, examples, labels, store, emails, ftrWords, tiePolicy>>

callVars == <<args, caller, fault, maxCount, sim, sort, idVec, simVec, i, ret,
              saved>>

outVars == <<similarEmails, outI, printed>>

mlVars == <<model, prediction, fout, disk, fin, featureSpace2, model2>>

vars == <<script, pc, dbVars, callVars, outVars, mlVars>>

(***************************************************************************)
(* Bounds and input domains.                                               *)
(***************************************************************************)
MaxDocs == 3

Words == {"learning", "french"}

Texts == SUBSET Words

DefaultMaxCount == 100

MaxCounts == -1 .. MaxDocs + 1

\* bug: the default threshold is 0
ZeroMinSim == <<0, 1>>

DefaultMinSim == <<1, 20>>

MinSims == {<<0, 1>>, <<1, 10>>, <<1, 1>>}

TiePolicies == {"asc", "desc"}

\* JavaScript's undefined, where a similarity is expected
Undefined == <<>>

\* JavaScript's undefined, where a record id is expected
UndefinedId == 0 - 1

(***************************************************************************)
(* Helpers on sequences.                                                   *)
(***************************************************************************)
SeqsUpTo(S, n) == UNION {[1 .. k -> S] : k \in 0 .. n}

Min(a, b) == IF a < b THEN a ELSE b

(***************************************************************************)
(* The store and the feature space.                                        *)
(***************************************************************************)
\* base.store('Email').push(email)
Push(st, email) == Append(st, email)

\* base.store('Email').allRecords: the ids of the records now in the store
AllRecords(st) == [k \in 1 .. Len(st) |-> k - 1]

\* featureSpace.updateRecords(rs): learn the words of the records of rs
UpdateRecords(fw, st, rs) == fw \cup UNION {st[rs[k] + 1] : k \in DOMAIN rs}

\* base.store('Email').newRecord({subject: query}): a record outside the store
NewRecord(q) == [subject |-> q]

\* the value of newRecord that line 204 tests for
NullRecord == [null |-> TRUE]

\* bug: the query record is pushed into the store
StoreKeepsQuery(st, rec) == Append(st, rec.subject)

\* the store after newRecord: the record is NOT stored in the database
StoreAfterNewRecord(st, rec) == st

\* bug: the feature space is updated with the query record
FtrSpaceLearnsQuery(fw, rec) == fw \cup rec.subject

\* the feature space after extractSparseVector: extraction does not update it
FtrSpaceAfterExtract(fw, rec) == fw

\* featureSpace.extractSparseVector(rec): the known words of the record
ExtractSparseVector(fw, rec) == rec.subject \cap fw

\* featureSpace.extractSparseMatrix(rs): one column per record of rs
ExtractSparseMatrix(fw, st, rs) == [k \in 1 .. Len(rs) |-> st[rs[k] + 1] \cap fw]

\* bug: the quotient is formed also when a norm is zero
DotUnguarded(d, v) ==
    <<Cardinality(d \cap v) * Cardinality(d \cap v),
      Cardinality(d) * Cardinality(v)>>

\* dot product of two normalised indicator vectors, squared, as <<num, den>>;
\* a sparse vector of norm zero has no entries, so its products are the
\* empty sum 0
Dot(d, v) ==
    IF d = {} \/ v = {} THEN <<0, 1>>
    ELSE <<Cardinality(d \cap v) * Cardinality(d \cap v),
           Cardinality(d) * Cardinality(v)>>

\* ftrMatrix.multiplyT(vector): entry j is column j+1 times the vector
MultiplyT(m, v) == [j \in 0 .. Len(m) - 1 |-> Dot(m[j + 1], v)]

ScoreLess(a, b) == a[1] * b[2] < b[1] * a[2]

ScoreEq(a, b) == a[1] * b[2] = b[1] * a[2]

\* x comes before y in the order sortPerm(asc) gives under tie policy tp
Before(s, x, y, asc, tp) ==
    \/ (IF asc THEN ScoreLess(s[x], s[y]) ELSE ScoreLess(s[y], s[x]))
    \/ /\ ScoreEq(s[x], s[y])
       /\ IF tp = "asc" THEN x < y ELSE y < x

\* bug: the sort runs in the other direction
SortPermFlipped(s, asc, tp) ==
    LET n == Cardinality(DOMAIN s)
        Rank(x) == Cardinality({y \in DOMAIN s : Before(s, y, x, ~asc, tp)})
    IN  [k \in 1 .. n |-> CHOOSE x \in DOMAIN s : Rank(x) = k - 1]

\* sim.sortPerm(asc).perm: the indices of sim in sorted order
SortPerm(s, asc, tp) ==
    LET n == Cardinality(DOMAIN s)
        Rank(x) == Cardinality({y \in DOMAIN s : Before(s, y, x, asc, tp)})
    IN  [k \in 1 .. n |-> CHOOSE x \in DOMAIN s : Rank(x) = k - 1]

(***************************************************************************)
(* The pieces of search (lines 199-249).                                   *)
(***************************************************************************)
NoRet == [kind |-> "none"]

\* line 245 (and 208): the pair [record set, similarity weights]
Result(ids, sims) == [kind |-> "ok", ids |-> ids, sims |-> sims]

\* line 247: the object returned by the catch clause
ErrorResult(msg) == [kind |-> "error", error |-> msg]

\* bug: maxCount is not fixed
NoClamp(mc, permLen) == mc

\* lines 227-230: fix maxCount if exceeding the number of records
ClampMaxCount(mc, permLen) == IF mc > permLen THEN permLen ELSE mc

\* bug: the loop runs until the counter equals maxCount
LoopCondNeq(k, mc) == k # mc

\* bug: the loop runs one iteration too many
LoopCondLeq(k, mc) == k <= mc

\* line 233: the loop condition
LoopCond(k, mc) == k < mc

\* bug: a constant index instead of the loop counter
PermAtFirst(p, k) == IF 1 \in DOMAIN p THEN p[1] ELSE UndefinedId

\* line 235: sort.perm[i]
PermAt(p, k) == IF k + 1 \in DOMAIN p THEN p[k + 1] ELSE UndefinedId

\* lines 237, 241: sim[maxid]
SimAt(s, id) == IF id \in DOMAIN s THEN s[id] ELSE Undefined

\* bug: the loop never stops at the threshold
BelowThresholdNever(x, ms) == FALSE

\* bug: a similarity equal to the threshold stops the loop too
BelowOrAtThreshold(x, ms) ==
    IF x = Undefined THEN FALSE
    ELSE IF ms[1] < 0 THEN FALSE
    ELSE x[1] * ms[2] * ms[2] <= ms[1] * ms[1] * x[2]

\* line 237: sim[maxid] < minSim (a comparison with undefined is false)
BelowThreshold(x, ms) ==
    IF x = Undefined \/ ms[1] <= 0 THEN FALSE
    ELSE x[1] * ms[2] * ms[2] < ms[1] * ms[1] * x[2]

\* line 266: the number of emails the output loop prints
OutputCount == 5

\* the library calls of search's try block that may throw
FaultPoints == {"newRecord", "extractSparseMatrix", "extractSparseVector",
                "multiplyT", "sortPerm"}

\* the library calls made at lines 202-219, in order
EntryPoints == <<"newRecord", "extractSparseMatrix", "extractSparseVector",
                 "multiplyT">>

\* the library call named ft is made, or was made, before the call named at
Reached(ft, at) ==
    \/ ft \notin {EntryPoints[k] : k \in DOMAIN EntryPoints}
    \/ \E j, k \in DOMAIN EntryPoints :
           EntryPoints[j] = ft /\ EntryPoints[k] = at /\ k < j

\* bug: no catch clause, the exception leaves search
Uncaught(msg) == [pc |-> "crashed", ret |-> NoRet]

\* lines 246-248: an exception in the try block ends the call with an object
\* holding its message
Caught(msg) == [pc |-> "idle", ret |-> ErrorResult(msg)]

\* bug: the similarity pushed is indexed by the loop counter
PushedSimAtCounter(s, id, k) == SimAt(s, k)

\* line 241: the similarity pushed with record id, in iteration k
PushedSim(s, id, k) == SimAt(s, id)

\* similarEmails[1][k]: an element of a plain array, undefined outside it
ArrayAt(arr, k) == IF k + 1 \in DOMAIN arr THEN arr[k + 1] ELSE Undefined

\* similarEmails[0][k]: a record of a record set, nothing outside it
RecordSetAt(rs, k) == IF k + 1 \in DOMAIN rs THEN rs[k + 1] ELSE UndefinedId

\* line 268: the index of the record the output loop prints for counter k
PrintedIndex(k) == 1

\* bug: base.close() leaves the database open
BaseStaysOpen == "open"

\* line 282: the database after base.close()
BaseAfterClose == "closed"

NoModel == [kind |-> "none"]

NoStream == [open |-> FALSE, buf |-> <<>>, pos |-> 0]

\* line 358: the spam label of an email, 1 for spam and 0 otherwise
Labels == {0, 1}

\* line 114: k, the number of clusters
NumClusters == 4

\* the sum of f over the set S
RECURSIVE SumOver(_, _)
SumOver(f, S) ==
    IF S = {} THEN 0
    ELSE LET x == CHOOSE y \in S : TRUE IN f[x] + SumOver(f, S \ {x})

\* line 655: new qm.analytics.SVC({ maxTime: 5 }), no weights set
NewSVCModel == [kind |-> "SVC", weights |-> <<>>]

\* line 671: the classifier trained on the feature matrix m and the labels
\* lab; the weight of a feature stands for the library's result, here the
\* spam emails holding the feature less the other emails holding it
FitSVC(fw, m, lab) ==
    [kind |-> "SVC",
     weights |-> [w \in fw |->
         Cardinality({k \in DOMAIN m : w \in m[k] /\ lab[k] = 1})
             - Cardinality({k \in DOMAIN m : w \in m[k] /\ lab[k] # 1})]]

\* line 684: SVC.predict(vector)
PredictSVC(md, v) == SumOver(md.weights, v)

\* line 752: what featureSpace.save writes to the stream
SaveFeatureSpace(fw) == [type |-> "FeatureSpace", bytes |-> fw]

\* line 756: what SVC.save writes to the stream
SaveSVC(md) == [type |-> "SVC", bytes |-> md.weights]

\* bug: the stream is closed without flushing
FlushNothing(dsk, buf) == dsk

\* line 760: fout.close() flushes the data written into the file
Flush(dsk, buf) == dsk \o buf

EndOfFile == [type |-> "eof", bytes |-> <<>>]

\* bug: the stream does not advance, every read starts at the beginning
ReadBlockFirst(file, pos) == IF 1 \in DOMAIN file THEN file[1] ELSE EndOfFile

\* lines 782, 788: the next saved object of the input stream at position pos
ReadBlock(file, pos) ==
    IF pos + 1 \in DOMAIN file THEN file[pos + 1] ELSE EndOfFile

\* lines 767-772: an object read from bytes another kind of object wrote is
\* not initialized
NotInitialized == [kind |-> "uninitialized"]

\* line 782: new qm.FeatureSpace(base, fin)
LoadFeatureSpace(block) ==
    IF block.type = "FeatureSpace"
    THEN [kind |-> "FeatureSpace", words |-> block.bytes]
    ELSE NotInitialized

\* line 788: new qm.analytics.SVC(fin)
LoadSVC(block) ==
    IF block.type = "SVC"
    THEN [kind |-> "SVC", weights |-> block.bytes]
    ELSE NotInitialized

(***************************************************************************)
(* The start shared by the scripts (lines 45-185).                         *)
(***************************************************************************)
InitCommon ==
    /\ base = "open"
    /\ examples \in SeqsUpTo(Texts, MaxDocs)
    /\ store = <<>>
    /\ emails = <<>>
    /\ ftrWords = {}
    /\ args = [query |-> {}, maxCount |-> 0, minSim |-> <<0, 1>>]
    /\ caller = "none"
    /\ fault = "none"
    /\ maxCount = 0
    /\ sim = <<>>
    /\ sort = <<>>
    /\ idVec = <<>>
    /\ simVec = <<>>
    /\ i = 0
    /\ ret = NoRet
    /\ saved = NoRet
    /\ similarEmails = NoRet
    /\ outI = 0
    /\ printed = <<>>
    /\ model = NoModel
    /\ prediction = UndefinedId
    /\ fout = NoStream
    /\ disk = <<>>
    /\ fin = NoStream
    /\ featureSpace2 = NoModel
    /\ model2 = NoModel

Init ==
    /\ script = "nn"
    /\ pc = "push"
    /\ tiePolicy \in TiePolicies
    /\ labels = <<>>
    /\ InitCommon

\* lines 56-58: one iteration of the loop that pushes the examples
PushEmail ==
    /\ pc = "push"
    /\ Len(store) < Len(examples)
    /\ store' = Push(store, examples[Len(store) + 1])
    /\ UNCHANGED <<script, pc, base, examples, labels, emails, ftrWords,
                   tiePolicy, callVars, outVars, mlVars>>

\* line 61: let emails = base.store('Email').allRecords
GetAllRecords ==
    /\ pc = "push"
    /\ Len(store) = Len(examples)
    /\ emails' = AllRecords(store)
    /\ pc' = "featureSpace"
    /\ UNCHANGED <<script, base, examples, labels, store, ftrWords, tiePolicy,
                   callVars, outVars, mlVars>>

\* lines 170-182: new qm.FeatureSpace(base, {...}), with nothing learnt yet
NewFeatureSpace ==
    /\ pc = "featureSpace"
    /\ ftrWords' = {}
    /\ pc' = "updateRecords"
    /\ UNCHANGED <<script, base, examples, labels, store, emails, tiePolicy,
                   callVars, outVars, mlVars>>

\* line 185: featureSpace.updateRecords(emails)
UpdateFeatureSpace ==
    /\ pc = "updateRecords"
    /\ ftrWords' = UpdateRecords(ftrWords, store, emails)
    /\ pc' = "idle"
    /\ UNCHANGED <<script, base, examples, labels, store, emails, tiePolicy,
                   callVars, outVars, mlVars>>

(***************************************************************************)
(* search (lines 199-249).                                                 *)
(***************************************************************************)
\* lines 199-219 of a call search(q, mc, ms) entered with store st and feature
\* space fw; sv is the result the caller keeps from an earlier call, ft the
\* library call that throws
Enter(q, mc, ms, st, fw, sv, ft) ==
    LET queryRecord == NewRecord(q)
        ftrMatrix == ExtractSparseMatrix(fw, st, emails)
        vector == ExtractSparseVector(fw, queryRecord)
        thrown == \E k \in DOMAIN EntryPoints : EntryPoints[k] = ft
    IN  /\ args' = [query |-> q, maxCount |-> mc, minSim |-> ms]
        /\ fault' = ft
        /\ maxCount' = mc
        /\ store' = IF Reached(ft, "newRecord")
                    THEN StoreAfterNewRecord(st, queryRecord) ELSE st
        /\ sort' = <<>>
        /\ idVec' = <<>>
        /\ simVec' = <<>>
        /\ i' = 0
        /\ saved' = sv
        /\ IF thrown
           THEN \* lines 246-248
                /\ ret' = Caught(ft).ret
                /\ pc' = Caught(ft).pc
                /\ ftrWords' = IF Reached(ft, "extractSparseVector")
                               THEN FtrSpaceAfterExtract(fw, queryRecord) ELSE fw
                /\ sim' = <<>>
           ELSE IF queryRecord = NullRecord
           THEN \* lines 204-209
                /\ ret' = Result(<<>>, <<>>)
                /\ pc' = "idle"
                /\ ftrWords' = fw
                /\ sim' = <<>>
           ELSE \* lines 212-219
                /\ ret' = NoRet
                /\ pc' = "sort"
                /\ ftrWords' = FtrSpaceAfterExtract(fw, queryRecord)
                /\ sim' = MultiplyT(ftrMatrix, vector)
        /\ UNCHANGED <<script, base, examples, labels, emails, tiePolicy,
                       outVars, mlVars>>

\* the first call of search, with any arguments
Search(q, mc, ms) ==
    /\ script = "nn"
    /\ pc = "idle"
    /\ ret = NoRet
    /\ caller' = "arguments"
    /\ Enter(q, mc, ms, store, ftrWords, NoRet, "none")

\* the first call of search, with the query alone (line 199: maxCount=100,
\* minSim=0.05)
SearchDefault(q) ==
    /\ script = "nn"
    /\ pc = "idle"
    /\ ret = NoRet
    /\ caller' = "query"
    /\ Enter(q, DefaultMaxCount, DefaultMinSim, store, ftrWords, NoRet, "none")

\* the first call of search, during which the library call ft throws
SearchThrowing(q, ft) ==
    /\ script = "nn"
    /\ pc = "idle"
    /\ ret = NoRet
    /\ caller' = "query"
    /\ Enter(q, DefaultMaxCount, DefaultMinSim, store, ftrWords, NoRet, ft)

\* line 263: search('learning french')
SearchLearningFrench ==
    /\ script = "nn"
    /\ pc = "idle"
    /\ ret = NoRet
    /\ caller' = "line263"
    /\ Enter({"learning", "french"}, DefaultMaxCount, DefaultMinSim, store,
             ftrWords, NoRet, "none")

\* the last call is made again with identical arguments, its result kept
SearchAgain ==
    /\ pc = "idle"
    /\ ret # NoRet
    /\ caller \in {"arguments", "query"}
    /\ fault = "none"
    /\ caller' = caller
    /\ Enter(args.query, args.maxCount, args.minSim, store, ftrWords, ret,
             "none")

\* as SearchAgain, after a whole call of search with query q made in between
\* (of that call only lines 202 and 214 can reach the store or the feature
\* space, and they do not read its maxCount and minSim)
SearchAgainAfter(q) ==
    /\ pc = "idle"
    /\ ret # NoRet
    /\ caller \in {"arguments", "query"}
    /\ fault = "none"
    /\ caller' = caller
    /\ Enter(args.query, args.maxCount, args.minSim,
             StoreAfterNewRecord(store, NewRecord(q)),
             FtrSpaceAfterExtract(ftrWords, NewRecord(q)), ret, "none")

\* lines 222-230: sort the similarities, start the result, fix maxCount
SortAndClamp ==
    /\ pc = "sort"
    /\ IF fault = "sortPerm"
       THEN /\ ret' = Caught(fault).ret
            /\ pc' = Caught(fault).pc
            /\ UNCHANGED <<sort, idVec, simVec, maxCount>>
       ELSE /\ sort' = SortPerm(sim, FALSE, tiePolicy)
            /\ idVec' = <<>>
            /\ simVec' = <<>>
            /\ maxCount' = ClampMaxCount(maxCount, Len(sort'))
            /\ pc' = "loop"
            /\ UNCHANGED ret
    /\ UNCHANGED <<script, dbVars, args, caller, fault, sim, i, saved, outVars,
                   mlVars>>

\* lines 233-241: an iteration that remembers the record and its similarity;
\* reading past the end of sort.perm makes the push throw (line 246)
LoopIter ==
    /\ pc = "loop"
    /\ LoopCond(i, maxCount)
    /\ LET maxid == PermAt(sort, i)
       IN  /\ ~BelowThreshold(SimAt(sim, maxid), args.minSim)
           /\ IF maxid = UndefinedId
              THEN /\ ret' = Caught("push").ret
                   /\ pc' = Caught("push").pc
                   /\ UNCHANGED <<idVec, simVec, i>>
              ELSE /\ idVec' = Append(idVec, maxid)
                   /\ simVec' = Append(simVec, PushedSim(sim, maxid, i))
                   /\ i' = i + 1
                   /\ UNCHANGED <<ret, pc>>
    /\ UNCHANGED <<script, dbVars, args, caller, fault, maxCount, sim, sort,
                   saved, outVars, mlVars>>

\* lines 233-237, 245: the similarity is below the threshold: break, return
LoopBreak ==
    /\ pc = "loop"
    /\ LoopCond(i, maxCount)
    /\ BelowThreshold(SimAt(sim, PermAt(sort, i)), args.minSim)
    /\ ret' = Result(idVec, simVec)
    /\ pc' = "idle"
    /\ UNCHANGED <<script, dbVars, args, caller, fault, maxCount, sim, sort,
                   idVec, simVec, i, saved, outVars, mlVars>>

\* lines 233, 245: the loop condition fails: return
LoopExit ==
    /\ pc = "loop"
    /\ ~LoopCond(i, maxCount)
    /\ ret' = Result(idVec, simVec)
    /\ pc' = "idle"
    /\ UNCHANGED <<script, dbVars, args, caller, fault, maxCount, sim, sort,
                   idVec, simVec, i, saved, outVars, mlVars>>

(***************************************************************************)
(* The application on a new input (lines 263-269).                         *)
(***************************************************************************)
\* line 263: let similarEmails = <the value search returned>
AssignSimilarEmails ==
    /\ pc = "idle"
    /\ caller = "line263"
    /\ ret # NoRet
    /\ similarEmails' = ret
    /\ outI' = 0
    /\ pc' = "output"
    /\ UNCHANGED <<script, dbVars, callVars, printed, mlVars>>

\* lines 266-269: one iteration of the output loop; similarEmails[1] of an
\* error object is undefined, and indexing it throws
OutputStep ==
    /\ pc = "output"
    /\ outI < OutputCount
    /\ IF similarEmails.kind = "ok"
       THEN /\ printed' = Append(printed,
                    [similarity |-> ArrayAt(similarEmails.sims, outI),
                     record |-> RecordSetAt(similarEmails.ids, PrintedIndex(outI))])
            /\ outI' = outI + 1
            /\ pc' = pc
       ELSE /\ pc' = "crashed"
            /\ UNCHANGED <<printed, outI>>
    /\ UNCHANGED <<script, dbVars, callVars, similarEmails, mlVars>>

\* line 282: base.close(), the last statement of the script
Close ==
    /\ script = "nn"
    /\ pc = "output"
    /\ outI >= OutputCount
    /\ base' = BaseAfterClose
    /\ pc' = "closed"
    /\ UNCHANGED <<script, examples, labels, store, emails, ftrWords,
                   tiePolicy, callVars, outVars, mlVars>>

SearchCall == \E q \in Texts, mc \in MaxCounts, ms \in MinSims : Search(q, mc, ms)

SearchQueryOnly == \E q \in Texts : SearchDefault(q)

SearchFails == \E q \in Texts, ft \in FaultPoints : SearchThrowing(q, ft)

SearchRepeat == \E q \in Texts : SearchAgainAfter(q)

Next ==
    \/ PushEmail
    \/ GetAllRecords
    \/ NewFeatureSpace
    \/ UpdateFeatureSpace
    \/ SearchCall
    \/ SearchQueryOnly
    \/ SearchFails
    \/ SearchLearningFrench
    \/ SearchAgain
    \/ SearchRepeat
    \/ SortAndClamp
    \/ LoopIter
    \/ LoopBreak
    \/ LoopExit
    \/ AssignSimilarEmails
    \/ OutputStep
    \/ Close

Spec == Init /\ [][Next]_vars

(***************************************************************************)
(* The script as written: its one call of search, at line 263.             *)
(***************************************************************************)
NextNN ==
    \/ PushEmail
    \/ GetAllRecords
    \/ NewFeatureSpace
    \/ UpdateFeatureSpace
    \/ SearchLearningFrench
    \/ SortAndClamp
    \/ LoopIter
    \/ LoopBreak
    \/ LoopExit
    \/ AssignSimilarEmails
    \/ OutputStep
    \/ Close

(***************************************************************************)
(* The spam filter script (lines 415-805). Its start is that of the first  *)
(* script: lines 462-464, 467, 612-615 and 620.                            *)
(***************************************************************************)
InitSVM ==
    /\ script = "svm"
    /\ pc = "push"
    /\ tiePolicy = "asc"
    /\ InitCommon
    /\ labels \in [1 .. Len(examples) -> Labels]

\* line 655: let SVC = new qm.analytics.SVC({ maxTime: 5 })
NewSVC ==
    /\ script = "svm"
    /\ pc = "idle"
    /\ model' = NewSVCModel
    /\ pc' = "fit"
    /\ UNCHANGED <<script, dbVars, callVars, outVars, prediction, fout, disk,
                   fin, featureSpace2, model2>>

\* lines 658-671: SVC.fit(emailFeatures, emailLabels)
Fit ==
    /\ pc = "fit"
    /\ LET emailFeatures == ExtractSparseMatrix(ftrWords, store, emails)
           emailLabels == labels
       IN  model' = FitSVC(ftrWords, emailFeatures, emailLabels)
    /\ pc' = "predict"
    /\ UNCHANGED <<script, dbVars, callVars, outVars, prediction, fout, disk,
                   fin, featureSpace2, model2>>

\* lines 684-727: the prediction for the unseen email, whose text is q
Predict(q) ==
    /\ script = "svm"
    /\ pc = "predict"
    /\ prediction' = PredictSVC(model, ExtractSparseVector(ftrWords, NewRecord(q)))
    /\ pc' = "openWrite"
    /\ UNCHANGED <<script, dbVars, callVars, outVars, model, fout, disk, fin,
                   featureSpace2, model2>>

\* line 748: var fout = qm.fs.openWrite('./database/models.bin')
OpenWrite ==
    /\ pc = "openWrite"
    /\ fout' = [open |-> TRUE, buf |-> <<>>, pos |-> 0]
    /\ disk' = <<>>
    /\ pc' = "saveFeatureSpace"
    /\ UNCHANGED <<script, dbVars, callVars, outVars, model, prediction, fin,
                   featureSpace2, model2>>

\* line 752: featureSpace.save(fout)
SaveFeatureSpaceStep ==
    /\ pc = "saveFeatureSpace"
    /\ fout' = [fout EXCEPT !.buf = Append(@, SaveFeatureSpace(ftrWords)),
                            !.pos = @ + 1]
    /\ pc' = "saveSVC"
    /\ UNCHANGED <<script, dbVars, callVars, outVars, model, prediction, disk,
                   fin, featureSpace2, model2>>

\* line 756: SVC.save(fout)
SaveSVCStep ==
    /\ pc = "saveSVC"
    /\ fout' = [fout EXCEPT !.buf = Append(@, SaveSVC(model)), !.pos = @ + 1]
    /\ pc' = "closeWrite"
    /\ UNCHANGED <<script, dbVars, callVars, outVars, model, prediction, disk,
                   fin, featureSpace2, model2>>

\* line 760: fout.close()
CloseWrite ==
    /\ pc = "closeWrite"
    /\ disk' = Flush(disk, fout.buf)
    /\ fout' = [fout EXCEPT !.open = FALSE, !.buf = <<>>]
    /\ pc' = "openRead"
    /\ UNCHANGED <<script, dbVars, callVars, outVars, model, prediction, fin,
                   featureSpace2, model2>>

\* line 776: const fin = qm.fs.openRead('./database/models.bin')
OpenRead ==
    /\ pc = "openRead"
    /\ fin' = [open |-> TRUE, buf |-> <<>>, pos |-> 0]
    /\ pc' = "loadFeatureSpace"
    /\ UNCHANGED <<script, dbVars, callVars, outVars, model, prediction, fout,
                   disk, featureSpace2, model2>>

\* line 782: let featureSpace2 = new qm.FeatureSpace(base, fin)
LoadFeatureSpaceStep ==
    /\ pc = "loadFeatureSpace"
    /\ featureSpace2' = LoadFeatureSpace(ReadBlock(disk, fin.pos))
    /\ fin' = [fin EXCEPT !.pos = @ + 1]
    /\ pc' = "loadSVC"
    /\ UNCHANGED <<script, dbVars, callVars, outVars, model, prediction, fout,
                   disk, model2>>

\* line 788: let SVC2 = new qm.analytics.SVC(fin)
LoadSVCStep ==
    /\ pc = "loadSVC"
    /\ model2' = LoadSVC(ReadBlock(disk, fin.pos))
    /\ fin' = [fin EXCEPT !.pos = @ + 1]
    /\ pc' = "loaded"
    /\ UNCHANGED <<script, dbVars, callVars, outVars, model, prediction, fout,
                   disk, featureSpace2>>

\* line 805: base.close(), the last statement of the script
CloseSVM ==
    /\ script = "svm"
    /\ pc = "loaded"
    /\ base' = BaseAfterClose
    /\ pc' = "closed"
    /\ UNCHANGED <<script, examples, labels, store, emails, ftrWords,
                   tiePolicy, callVars, outVars, mlVars>>

PredictUnseen == \E q \in Texts : Predict(q)

NextSVM ==
    \/ PushEmail
    \/ GetAllRecords
    \/ NewFeatureSpace
    \/ UpdateFeatureSpace
    \/ NewSVC
    \/ Fit
    \/ PredictUnseen
    \/ OpenWrite
    \/ SaveFeatureSpaceStep
    \/ SaveSVCStep
    \/ CloseWrite
    \/ OpenRead
    \/ LoadFeatureSpaceStep
    \/ LoadSVCStep
    \/ CloseSVM

(***************************************************************************)
(* The clustering script (document-clustering.js). Its start is that of    *)
(* the first script: lines 45-49, 56-58, 61, 70-73 and 78.                 *)
(***************************************************************************)
InitClu ==
    /\ script = "clu"
    /\ pc = "push"
    /\ tiePolicy = "asc"
    /\ labels = <<>>
    /\ InitCommon

\* lines 114-124: KMeans.fit(emailFeatures); the centroids the library
\* finds depend on its random start and are left open
FitKMeans ==
    /\ script = "clu"
    /\ pc = "idle"
    /\ model' = [kind |-> "KMeans", k |-> NumClusters]
    /\ pc' = "predict"
    /\ UNCHANGED <<script, dbVars, callVars, outVars, prediction, fout, disk,
                   fin, featureSpace2, model2>>

\* lines 136-196: prediction = distances.getMaxIdx(), the index of a cluster
PredictCluster(c) ==
    /\ script = "clu"
    /\ pc = "predict"
    /\ prediction' = c
    /\ pc' = "predicted"
    /\ UNCHANGED <<script, dbVars, callVars, outVars, model, fout, disk, fin,
                   featureSpace2, model2>>

\* line 226: base.close(), the last statement of the script
CloseClu ==
    /\ script = "clu"
    /\ pc = "predicted"
    /\ base' = BaseAfterClose
    /\ pc' = "closed"
    /\ UNCHANGED <<script, examples, labels, store, emails, ftrWords,
                   tiePolicy, callVars, outVars, mlVars>>

PredictSomeCluster == \E c \in 0 .. NumClusters - 1 : PredictCluster(c)

NextClu ==
    \/ PushEmail
    \/ GetAllRecords
    \/ NewFeatureSpace
    \/ UpdateFeatureSpace
    \/ FitKMeans
    \/ PredictSomeCluster
    \/ CloseClu

(***************************************************************************)
(* The three scripts, each run as written.                                 *)
(***************************************************************************)
InitScripts == Init \/ InitSVM \/ InitClu

NextScripts == NextNN \/ NextSVM \/ NextClu

SpecScripts == InitScripts /\ [][NextScripts]_vars

(***************************************************************************)
(* Vocabulary of the properties.                                           *)
(***************************************************************************)
\* a call of search has returned, whatever happened in it
ReturnedAny == script = "nn" /\ pc = "idle" /\ ret # NoRet

\* a call of search in which no library call threw has returned; args are
\* its arguments, ret its value
Returned == ReturnedAny /\ fault = "none"

\* similarity x is at least the threshold ms
AtLeast(x, ms) == ms[1] <= 0 \/ x[1] * ms[2] * ms[2] >= ms[1] * ms[1] * x[2]

\* cosine similarity of stored record id to the query of the call
TrueSim(id) == Dot(store[id + 1] \cap ftrWords, args.query \cap ftrWords)

\* the first n entries of a sequence
Take(s, n) == SubSeq(s, 1, IF n < 0 THEN 0 ELSE Min(n, Len(s)))

(***************************************************************************)
(* C1: for maxCount >= 0 the returned sequence has at most                 *)
(* min(maxCount, |corpus|) entries, and the collection loop never reads    *)
(* sort.perm at an index past its end (a larger maxCount is clamped).      *)
(***************************************************************************)
C1_LengthBounded ==
    /\ (Returned /\ ret.kind = "ok" /\ args.maxCount >= 0) =>
           Len(ret.ids) <= Min(args.maxCount, Len(emails))
    /\ (pc = "loop" /\ LoopCond(i, maxCount)) => i + 1 \in DOMAIN sort

\* a maxCount above the corpus size was clamped and the whole corpus returned
C1_Witness ==
    /\ Returned
    /\ Len(emails) >= 2
    /\ args.maxCount > Len(emails)
    /\ ret.kind = "ok"
    /\ Len(ret.ids) = Len(emails)

(***************************************************************************)
(* C2: every returned pair has a score of at least minSimilarity, and the  *)
(* score is the similarity of that document to the query.                  *)
(***************************************************************************)
C2_AboveThreshold ==
    (Returned /\ ret.kind = "ok") =>
        \A k \in DOMAIN ret.ids :
            /\ AtLeast(ret.sims[k], args.minSim)
            /\ AtLeast(TrueSim(ret.ids[k]), args.minSim)

\* something is returned, fewer than maxCount, and a document of the corpus
\* is kept out by the threshold
C2_Witness ==
    /\ Returned
    /\ ret.kind = "ok"
    /\ Len(ret.ids) >= 1
    /\ Len(ret.ids) < args.maxCount
    /\ \E id \in DOMAIN sim : ~AtLeast(TrueSim(id), args.minSim)

(***************************************************************************)
(* C3 as stated: the returned sequence is sorted by score descending and   *)
(* entries with equal scores appear in ascending document-id order.        *)
(***************************************************************************)
C3_SortedTiesAscending ==
    (Returned /\ ret.kind = "ok") =>
        \A j, k \in DOMAIN ret.ids :
            j < k =>
                /\ ~ScoreLess(ret.sims[j], ret.sims[k])
                /\ ScoreEq(ret.sims[j], ret.sims[k]) => ret.ids[j] < ret.ids[k]

(***************************************************************************)
(* C3 as amended: the returned sequence is sorted by score descending      *)
(* (scores never increase along it); the order of entries with equal       *)
(* scores is the one sortPerm gives and need not be ascending id.          *)
(***************************************************************************)
C3_SortedDescending ==
    (Returned /\ ret.kind = "ok") =>
        \A j, k \in DOMAIN ret.ids :
            j < k => ~ScoreLess(TrueSim(ret.ids[j]), TrueSim(ret.ids[k]))

\* a result with two entries of different scores
C3_Witness ==
    /\ Returned
    /\ ret.kind = "ok"
    /\ Len(ret.ids) >= 2
    /\ ScoreLess(ret.sims[2], ret.sims[1])

(***************************************************************************)
(* C4: the early-stopping walk returns exactly the entries of the sorted   *)
(* list with score >= minSimilarity, truncated to the first maxCount.      *)
(***************************************************************************)
C4_Filtered == SelectSeq(sort, LAMBDA id : AtLeast(TrueSim(id), args.minSim))

C4_WalkIsFilterThenTruncate ==
    Returned =>
        /\ ret.kind = "ok"
        /\ ret.ids = Take(C4_Filtered, args.maxCount)
        /\ ret.sims = [k \in DOMAIN ret.ids |-> TrueSim(ret.ids[k])]

\* the threshold removes a document and maxCount removes another
C4_Witness ==
    /\ Returned
    /\ ret.kind = "ok"
    /\ Len(ret.ids) >= 1
    /\ Len(C4_Filtered) < Len(emails)
    /\ Len(ret.ids) < Len(C4_Filtered)

(***************************************************************************)
(* C5 as stated: a call of search with a negative maxCount fails with an   *)
(* error instead of returning a result.                                    *)
(***************************************************************************)
C5_NegativeMaxCountFails ==
    (Returned /\ args.maxCount < 0) => ret.kind = "error"

(***************************************************************************)
(* C5 as amended: a call of search with a negative maxCount does not fail: *)
(* the collection loop is not entered and the empty result (empty record   *)
(* set, empty weights) is returned.                                        *)
(***************************************************************************)
C5_NegativeMaxCountEmpty ==
    (Returned /\ args.maxCount < 0) => ret = Result(<<>>, <<>>)

\* a negative maxCount on a corpus holding a document above the threshold
C5_Witness ==
    /\ Returned
    /\ args.maxCount < 0
    /\ ret = Result(<<>>, <<>>)
    /\ \E id \in DOMAIN sim :
           AtLeast(TrueSim(id), args.minSim) /\ ScoreLess(<<0, 1>>, TrueSim(id))

(***************************************************************************)
(* C7: on an empty corpus search returns the empty result, not an error,   *)
(* whatever the query, maxCount and minSimilarity.                         *)
(***************************************************************************)
C7_EmptyCorpusEmptyResult ==
    (Returned /\ Len(emails) = 0) => ret = Result(<<>>, <<>>)

\* an empty corpus searched with a non-empty query and a positive maxCount
C7_Witness ==
    /\ Returned
    /\ Len(emails) = 0
    /\ args.query # {}
    /\ args.maxCount > 0
    /\ ret = Result(<<>>, <<>>)

(***************************************************************************)
(* C8: a call of search repeated with identical arguments returns the     *)
(* identical value (same ids, same scores, same order), also when scores   *)
(* tie and when another call was made in between.                          *)
(***************************************************************************)
C8_Deterministic == (Returned /\ saved # NoRet) => ret = saved

\* a repeated call whose result holds two documents of equal score
C8_Witness ==
    /\ Returned
    /\ saved # NoRet
    /\ ret.kind = "ok"
    /\ Len(ret.ids) >= 2
    /\ ScoreEq(ret.sims[1], ret.sims[2])

(***************************************************************************)
(* C9: no step of search changes the store, the record set emails or the   *)
(* feature space, and no step after its entry changes the query; building  *)
(* the query record adds nothing to the store.                             *)
(***************************************************************************)
C9_Frame ==
    (script = "nn" /\ pc \in {"idle", "sort", "loop"}) =>
        /\ store' = store
        /\ emails' = emails
        /\ ftrWords' = ftrWords
        /\ pc \in {"sort", "loop"} => args'.query = args.query

C9_NoSideEffects == [][C9_Frame]_vars

\* a finished call with a query of words on a non-empty store
C9_Witness ==
    /\ Returned
    /\ ret.kind = "ok"
    /\ args.query # {}
    /\ Len(store) >= 1
    /\ Len(ret.ids) >= 1

(***************************************************************************)
(* C10: no document id appears twice in the returned sequence.             *)
(***************************************************************************)
C10_NoDuplicateIds ==
    (Returned /\ ret.kind = "ok") =>
        \A j, k \in DOMAIN ret.ids : j # k => ret.ids[j] # ret.ids[k]

\* a result of at least two documents
C10_Witness ==
    /\ Returned
    /\ ret.kind = "ok"
    /\ Len(ret.ids) >= 2
    /\ Len(ret.ids) = Len(emails)

(***************************************************************************)
(* C11: the threshold is inclusive: among the first maxCount entries of    *)
(* the sorted list, exactly those with a score of at least minSimilarity   *)
(* are returned; a score equal to minSimilarity is returned.               *)
(***************************************************************************)
C11_ThresholdInclusive ==
    (Returned /\ ret.kind = "ok") =>
        \A k \in 1 .. Min(args.maxCount, Len(sort)) :
            (\E j \in DOMAIN ret.ids : ret.ids[j] = sort[k])
                <=> AtLeast(sim[sort[k]], args.minSim)

\* a returned document whose score equals a positive threshold
C11_Witness ==
    /\ Returned
    /\ ret.kind = "ok"
    /\ args.minSim[1] > 0
    /\ \E j \in DOMAIN ret.ids :
           ret.sims[j][1] * args.minSim[2] * args.minSim[2]
               = args.minSim[1] * args.minSim[1] * ret.sims[j][2]

C13_Scenario ==
    /\ examples = <<{"learning"}, {"french"}, {"learning", "french"}>>
    /\ args = [query |-> {"learning"}, maxCount |-> 2, minSim |-> <<1, 10>>]

C13_ConcreteScenario ==
    (Returned /\ C13_Scenario) => ret = Result(<<0, 2>>, << <<1, 1>>, <<1, 2>> >>)

\* the scenario has been searched
C13_Witness == Returned /\ C13_Scenario /\ ret.kind = "ok" /\ Len(ret.ids) = 2

(***************************************************************************)
(* C14: the models are read back in the order they were written: the file  *)
(* holds what the feature space wrote and then what the SVC wrote, the     *)
(* feature space is loaded first and the SVC second, and each loaded       *)
(* object is initialised from the bytes its counterpart wrote.             *)
(***************************************************************************)
C14_LoadedInSavedOrder ==
    script = "svm" =>
        /\ pc = "closeWrite" =>
               fout.buf = <<SaveFeatureSpace(ftrWords), SaveSVC(model)>>
        /\ fin.open =>
               disk = <<SaveFeatureSpace(ftrWords), SaveSVC(model)>>
        /\ pc = "loadSVC" =>
               /\ featureSpace2 = [kind |-> "FeatureSpace", words |-> disk[1].bytes]
               /\ model2 = NoModel
        /\ pc \in {"loaded", "closed"} =>
               /\ featureSpace2 = [kind |-> "FeatureSpace", words |-> ftrWords]
               /\ model2 = [kind |-> "SVC", weights |-> disk[2].bytes]
               /\ model2 = model

\* both objects were loaded, of a feature space and a model that know words
C14_Witness == script = "svm" /\ pc = "loaded" /\ ftrWords = Words /\ model2.kind = "SVC" /\ (\E w \in Words : model2.weights[w] # 0) /\ featureSpace2.kind = "FeatureSpace"

(***************************************************************************)
(* C15: a call of search with the query alone behaves as                   *)
(* search(query, 100, 0.05): it runs with maxCount 100 and minSim 1/20, at *)
(* most 100 records are returned, every returned similarity is at least    *)
(* 1/20, and every record left out among those walked scores less.         *)
(***************************************************************************)
C15_DefaultArguments ==
    (Returned /\ caller \in {"query", "line263"}) =>
        /\ args.maxCount = 100
        /\ args.minSim = <<1, 20>>
        /\ ret.kind = "ok"
        /\ Len(ret.ids) <= 100
        /\ \A j \in DOMAIN ret.sims : AtLeast(ret.sims[j], <<1, 20>>)
        /\ \A id \in DOMAIN sim :
               (\E j \in DOMAIN ret.ids : ret.ids[j] = id)
                   <=> AtLeast(sim[id], <<1, 20>>)

\* a call with the query alone has returned some records and left out others
C15_Witness == Returned /\ caller = "query" /\ ret.kind = "ok" /\ Len(ret.ids) >= 1 /\ Len(ret.ids) < Cardinality(DOMAIN sim)

(***************************************************************************)
(* C16: the output loop prints the top 5 most similar emails: the line it  *)
(* prints for counter i holds the similarity of the i-th ranked email and  *)
(* the i-th record of the returned record set, and both positions exist in *)
(* the result.                                                             *)
(***************************************************************************)
C16_PrintsTopFive ==
    \A k \in DOMAIN printed :
        /\ k <= Len(similarEmails.ids)
        /\ printed[k].similarity = similarEmails.sims[k]
        /\ printed[k].record = similarEmails.ids[k]

(***************************************************************************)
(* C17: search never throws to its caller: when a library call of the try  *)
(* block throws, the call returns an object with the field error holding   *)
(* the message, whose shape differs from the pair returned on success.     *)
(***************************************************************************)
C17_NeverThrows ==
    /\ pc # "crashed"
    /\ ReturnedAny =>
           /\ ret.kind \in {"ok", "error"}
           /\ fault # "none" =>
                  /\ ret = [kind |-> "error", error |-> fault]
                  /\ DOMAIN ret # DOMAIN Result(<<>>, <<>>)

\* a call in which sortPerm threw has returned the error object
C17_Witness == ReturnedAny /\ fault = "sortPerm" /\ ret.kind = "error" /\ ret.error = "sortPerm"

(***************************************************************************)
(* C18: the record-id list and the similarity list have the same length    *)
(* and the similarity at each position is the score of the record id at    *)
(* that position, after every iteration of the loop and in the pair        *)
(* returned, the loop having broken early or not.                          *)
(***************************************************************************)
C18_Paired(ids, sims) ==
    /\ Len(ids) = Len(sims)
    /\ \A k \in DOMAIN ids : sims[k] = sim[ids[k]]

C18_ListsPaired ==
    /\ (script = "nn" /\ pc = "loop") => C18_Paired(idVec, simVec)
    /\ (Returned /\ ret.kind = "ok") =>
           /\ ret.ids = idVec
           /\ ret.sims = simVec
           /\ C18_Paired(ret.ids, ret.sims)

\* the loop broke early after pushing two records of different scores
C18_Witness == Returned /\ ret.kind = "ok" /\ Len(ret.ids) = 2 /\ ret.sims[1] # ret.sims[2] /\ i < maxCount /\ BelowThreshold(SimAt(sim, PermAt(sort, i)), args.minSim)

(***************************************************************************)
(* C19: the output file is closed by fout.close() after both save calls    *)
(* and before the file is opened for reading: whenever the input stream is *)
(* open, the output stream is closed with nothing left to flush, both      *)
(* saves were made, and the file holds both saved models.                  *)
(***************************************************************************)
C19_ClosedBeforeRead ==
    (script = "svm" /\ fin.open) =>
        /\ ~fout.open
        /\ fout.buf = <<>>
        /\ fout.pos = 2
        /\ \E k \in DOMAIN disk : disk[k].type = "FeatureSpace"
        /\ \E k \in DOMAIN disk : disk[k].type = "SVC"

\* the file has just been opened for reading
C19_Witness == script = "svm" /\ pc = "loadFeatureSpace" /\ fin.open /\ fin.pos = 0 /\ Len(disk) = 2

(***************************************************************************)
(* C20: every script closes its database with base.close() before it       *)
(* ends: a script that can take no further step has closed the database,   *)
(* and no step of a script is taken once the database is closed.           *)
(***************************************************************************)
C20_ClosedAtEnd == (~ENABLED NextScripts) => base = "closed"

C20_StepWhileOpen == base # "closed"

====
